---- MODULE Spec2Model ----
(***************************************************************************)
(* A model of the limit order book of lob-simulator: Order (order.py),     *)
(* Trade, PriceLevel and OrderBook (orderbook.py).                         *)
(*                                                                         *)
(* Quantities, prices and timestamps are Python floats.  They are modelled *)
(* as integer multiples of one quantum, and every float addition and       *)
(* subtraction rounds to MantissaBits significant bits (round half to      *)
(* even), as IEEE-754 does with 53.  Small integers are exact, as they are *)
(* in Python.                                                              *)
(*                                                                         *)
(* The two priority structures are heapq lists of (key, timestamp, order)  *)
(* tuples: the model keeps the list and sifts it as heapq does, comparing  *)
(* tuples as Python does, so that a comparison that reaches the two Order  *)
(* objects raises TypeError (Order defines no ordering).                   *)
(***************************************************************************)
EXTENDS Integers, Sequences, FiniteSets, TLC

VARIABLES
    orders,        \* every Order object constructed, indexed by id
    clock,         \* the last value time.time() returned
    index,         \* OrderBook._orders: the ids registered, in insertion order
    bid_heap,      \* OrderBook._bid_heap: list of <<-price, timestamp, id>>
    ask_heap,      \* OrderBook._ask_heap: list of <<price, timestamp, id>>
    bid_levels,    \* OrderBook._bid_levels: price -> PriceLevel
    ask_levels,    \* OrderBook._ask_levels: price -> PriceLevel
    trades,        \* OrderBook.trades
    total_volume,  \* OrderBook.total_volume
    total_trades,  \* OrderBook.total_trades
    ret,           \* the outcome of the last call made on the book
    sim,           \* MarketSimulator: the metrics lists and the two volumes
    rng,           \* the random generators: what they yield, how much is read
    run            \* the simulator calls made: where the one in progress is

simvars == <<sim, rng, run>>

vars == <<orders, clock, index, bid_heap, ask_heap, bid_levels, ask_levels,
          trades, total_volume, total_trades, ret, sim, rng, run>>

(***************************************************************************)
(* Bounds.                                                                 *)
(***************************************************************************)
MaxOrders == 3
MaxPending == 1
MaxPrice == 2
MaxQty == 2
MantissaBits == 4
TieOrders == 4
DeepOrders == 5
QueryOrders == 3
FillOrders == 2
MaxSeeds == 2
MaxRows == 1
MaxEvents == 2
MaxLevels == 1
MaxHistory == 1

\* price quanta in one cent: round(x, 2) keeps multiples of it
TicksPerCent == 2

None == 0

Sides == {"buy", "sell"}
Prices == 1..MaxPrice
Quantities == 1..MaxQty

(***************************************************************************)
(* Python float arithmetic.                                                *)
(***************************************************************************)
RECURSIVE Pow2(_)
Pow2(n) == IF n = 0 THEN 1 ELSE 2 * Pow2(n - 1)

RECURSIVE StepOf(_, _)
StepOf(x, s) == IF x < Pow2(MantissaBits) * s THEN s ELSE StepOf(x, 2 * s)

\* x rounded to a multiple of the spacing s, ties to the even multiple
RoundTo(x, s) ==
    LET r == x % s
    IN  IF 2 * r < s THEN x - r
        ELSE IF 2 * r > s THEN x - r + s
        ELSE IF ((x - r) \div s) % 2 = 0 THEN x - r ELSE x - r + s

RoundNat(x) == RoundTo(x, StepOf(x, 1))

FRound(x) == IF x < 0 THEN 0 - RoundNat(0 - x) ELSE RoundNat(x)

FAdd(a, b) == FRound(a + b)
FSub(a, b) == FRound(a - b)

RECURSIVE FSumFrom(_, _, _)
FSumFrom(acc, s, i) ==
    IF i > Len(s) THEN acc ELSE FSumFrom(FAdd(acc, s[i]), s, i + 1)

FSum(s) == FSumFrom(0, s, 1)

Min(a, b) == IF a <= b THEN a ELSE b

(***************************************************************************)
(* Order (order.py).                                                       *)
(***************************************************************************)
NewOrder(id, side, order_type, quantity, price, now) ==
    [id |-> id, side |-> side, order_type |-> order_type,
     quantity |-> quantity, price |-> price, timestamp |-> now,
     remaining |-> quantity, filled |-> 0, status |-> "open"]

FillStatusNeverPartial(remaining) ==
    IF remaining = 0 THEN "filled" ELSE "open"

FillStatusNeverFilled(remaining) == "partial"

FillStatus(remaining) == IF remaining = 0 THEN "filled" ELSE "partial"

FillNoClamp(o, quantity) == quantity

\* quantity = min(quantity, self.remaining): what fill applies and returns
FillClamp(o, quantity) == Min(quantity, o.remaining)

Fill(o, quantity) ==
    LET q == FillClamp(o, quantity)
        rem == FSub(o.remaining, q)
    IN  [o EXCEPT !.filled = FAdd(o.filled, q),
                  !.remaining = rem,
                  !.status = FillStatus(rem)]

CancelKeepsFilled(o) ==
    IF o.status = "filled" THEN o ELSE [o EXCEPT !.status = "cancelled"]

CancelClearsRemaining(o) ==
    [o EXCEPT !.status = "cancelled", !.remaining = 0]

Cancel(o) == [o EXCEPT !.status = "cancelled"]

TerminalOnlyFilled(o) == o.status = "filled"

Terminal(o) == o.status \in {"filled", "cancelled"}

(***************************************************************************)
(* Trade (orderbook.py).                                                   *)
(***************************************************************************)
TradePriceOfAggressor(best_price, aggressive_order) ==
    IF aggressive_order.order_type = "limit"
    THEN aggressive_order.price ELSE best_price

\* price=best_price: the price a match executes at
TradePrice(best_price, aggressive_order) == best_price

Trade(buy_order_id, sell_order_id, price, quantity, now) ==
    [buy_order_id |-> buy_order_id, sell_order_id |-> sell_order_id,
     price |-> price, quantity |-> quantity, timestamp |-> now]

(***************************************************************************)
(* PriceLevel (orderbook.py).  A level holds the ids of its orders.        *)
(***************************************************************************)
PriceLevel(price) == [price |-> price, orders |-> <<>>, total_quantity |-> 0]

LevelAddOrder(lvl, o) ==
    [lvl EXCEPT !.orders = Append(@, o.id),
                !.total_quantity = FAdd(@, o.remaining)]

RemainingOf(os, ids) == [i \in 1..Len(ids) |-> os[ids[i]].remaining]

LevelKeeps(o) == o.remaining > 0 /\ o.status \notin {"cancelled", "filled"}

RemoveFilled(lvl, os) ==
    LET kept == SelectSeq(lvl.orders, LAMBDA i : LevelKeeps(os[i]))
    IN  [lvl EXCEPT !.orders = kept,
                    !.total_quantity = FSum(RemainingOf(os, kept))]

(***************************************************************************)
(* heapq on a list of <<key, timestamp, id>> tuples.  Positions are        *)
(* Python's, from 0; the list is a sequence, from 1.                       *)
(***************************************************************************)
\* tuple a < tuple b: "lt", "ge", or "err" when the comparison reaches the
\* two Order objects (equal key and timestamp, distinct objects)
TupleLess(a, b) ==
    IF a[1] # b[1] THEN (IF a[1] < b[1] THEN "lt" ELSE "ge")
    ELSE IF a[2] # b[2] THEN (IF a[2] < b[2] THEN "lt" ELSE "ge")
    ELSE IF a[3] = b[3] THEN "ge"
    ELSE "err"

Swap(h, i, j) == [h EXCEPT ![i + 1] = h[j + 1], ![j + 1] = h[i + 1]]

RECURSIVE SiftDown(_, _, _)
SiftDown(h, startpos, pos) ==
    IF pos <= startpos THEN [heap |-> h, err |-> FALSE]
    ELSE LET parentpos == (pos - 1) \div 2
             c == TupleLess(h[pos + 1], h[parentpos + 1])
         IN  IF c = "err" THEN [heap |-> h, err |-> TRUE]
             ELSE IF c = "ge" THEN [heap |-> h, err |-> FALSE]
             ELSE SiftDown(Swap(h, pos, parentpos), startpos, parentpos)

RECURSIVE SiftUpFrom(_, _, _)
SiftUpFrom(h, startpos, pos) ==
    LET endpos == Len(h)
        limit == endpos \div 2
        childpos == 2 * pos + 1
    IN  IF pos >= limit THEN SiftDown(h, startpos, pos)
        ELSE LET c == IF childpos + 1 < endpos
                      THEN TupleLess(h[childpos + 1], h[childpos + 2])
                      ELSE "lt"
                 smaller == IF c = "lt" THEN childpos ELSE childpos + 1
             IN  IF c = "err" THEN [heap |-> h, err |-> TRUE]
                 ELSE SiftUpFrom(Swap(h, pos, smaller), startpos, smaller)

SiftUp(h, pos) == SiftUpFrom(h, pos, pos)

HeapPush(h, item) ==
    LET h2 == Append(h, item)
    IN  SiftDown(h2, 0, Len(h2) - 1)

HeapPop(h) ==
    LET n == Len(h) - 1
        lastelt == h[Len(h)]
        h2 == SubSeq(h, 1, n)
    IN  IF n = 0 THEN [heap |-> h2, err |-> FALSE]
        ELSE SiftUp([h2 EXCEPT ![1] = lastelt], 0)

(***************************************************************************)
(* OrderBook (orderbook.py).  The matching functions work on a record B of *)
(* the objects they mutate: orders, the heaps, the levels; B.out is the    *)
(* list of trades made so far in the call and B.err says that the call has *)
(* raised (TypeError from heapq), which ends it where it stands.           *)
(***************************************************************************)
Book == [orders |-> orders, bid_heap |-> bid_heap, ask_heap |-> ask_heap,
         bid_levels |-> bid_levels, ask_levels |-> ask_levels,
         out |-> <<>>, err |-> FALSE]

PurgeLevel(levels, price, os) ==
    IF price \in DOMAIN levels
    THEN [levels EXCEPT ![price] = RemoveFilled(@, os)]
    ELSE levels

RECURSIVE FillFromAsks(_, _)
FillFromAsks(B, a) ==
    IF B.err \/ ~(B.orders[a].remaining > 0 /\ Len(B.ask_heap) > 0) THEN B
    ELSE
    LET best_price == B.ask_heap[1][1]
        p == B.ask_heap[1][3]
        aggressive_order == B.orders[a]
        passive_order == B.orders[p]
    IN  IF Terminal(passive_order)
        THEN LET r == HeapPop(B.ask_heap)
             IN  FillFromAsks([B EXCEPT !.ask_heap = r.heap, !.err = r.err], a)
        ELSE IF aggressive_order.order_type = "limit"
                /\ best_price > aggressive_order.price
        THEN B
        ELSE
        LET fill_qty == Min(aggressive_order.remaining, passive_order.remaining)
            os == [B.orders EXCEPT ![a] = Fill(@, fill_qty),
                                   ![p] = Fill(@, fill_qty)]
            trade == Trade(a, p, TradePrice(best_price, aggressive_order),
                           fill_qty, clock)
            B1 == [B EXCEPT !.orders = os, !.out = Append(@, trade)]
        IN  IF os[p].remaining = 0
            THEN LET r == HeapPop(B1.ask_heap)
                     B2 == [B1 EXCEPT !.ask_heap = r.heap, !.err = r.err]
                 IN  IF r.err THEN B2
                     ELSE FillFromAsks(
                            [B2 EXCEPT !.ask_levels =
                                PurgeLevel(@, best_price, os)], a)
            ELSE FillFromAsks(B1, a)

RECURSIVE FillFromBids(_, _)
FillFromBids(B, a) ==
    IF B.err \/ ~(B.orders[a].remaining > 0 /\ Len(B.bid_heap) > 0) THEN B
    ELSE
    LET best_price == 0 - B.bid_heap[1][1]
        p == B.bid_heap[1][3]
        aggressive_order == B.orders[a]
        passive_order == B.orders[p]
    IN  IF Terminal(passive_order)
        THEN LET r == HeapPop(B.bid_heap)
             IN  FillFromBids([B EXCEPT !.bid_heap = r.heap, !.err = r.err], a)
        ELSE IF aggressive_order.order_type = "limit"
                /\ best_price < aggressive_order.price
        THEN B
        ELSE
        LET fill_qty == Min(aggressive_order.remaining, passive_order.remaining)
            os == [B.orders EXCEPT ![a] = Fill(@, fill_qty),
                                   ![p] = Fill(@, fill_qty)]
            trade == Trade(p, a, TradePrice(best_price, aggressive_order),
                           fill_qty, clock)
            B1 == [B EXCEPT !.orders = os, !.out = Append(@, trade)]
        IN  IF os[p].remaining = 0
            THEN LET r == HeapPop(B1.bid_heap)
                     B2 == [B1 EXCEPT !.bid_heap = r.heap, !.err = r.err]
                 IN  IF r.err THEN B2
                     ELSE FillFromBids(
                            [B2 EXCEPT !.bid_levels =
                                PurgeLevel(@, best_price, os)], a)
            ELSE FillFromBids(B1, a)

AddToBids(B, a) ==
    LET order == B.orders[a]
        price == order.price
        lv == IF price \in DOMAIN B.bid_levels
              THEN B.bid_levels[price] ELSE PriceLevel(price)
        levels == [q \in DOMAIN B.bid_levels \cup {price} |->
                     IF q = price THEN LevelAddOrder(lv, order)
                     ELSE B.bid_levels[q]]
        r == HeapPush(B.bid_heap, <<0 - price, order.timestamp, a>>)
    IN  [B EXCEPT !.bid_levels = levels, !.bid_heap = r.heap, !.err = r.err]

AddToAsks(B, a) ==
    LET order == B.orders[a]
        price == order.price
        lv == IF price \in DOMAIN B.ask_levels
              THEN B.ask_levels[price] ELSE PriceLevel(price)
        levels == [q \in DOMAIN B.ask_levels \cup {price} |->
                     IF q = price THEN LevelAddOrder(lv, order)
                     ELSE B.ask_levels[q]]
        r == HeapPush(B.ask_heap, <<price, order.timestamp, a>>)
    IN  [B EXCEPT !.ask_levels = levels, !.ask_heap = r.heap, !.err = r.err]

\* after _fill_from_asks has returned: if not self._ask_heap: break
RECURSIVE MarketBuyLoop(_, _)
MarketBuyAgain(B1, a) ==
    IF B1.err \/ Len(B1.ask_heap) = 0 THEN B1 ELSE MarketBuyLoop(B1, a)

MarketBuyLoop(B, a) ==
    IF B.err \/ ~(B.orders[a].remaining > 0 /\ Len(B.ask_heap) > 0) THEN B
    ELSE MarketBuyAgain(FillFromAsks(B, a), a)

\* after _fill_from_bids has returned: if not self._bid_heap: break
RECURSIVE MarketSellLoop(_, _)
MarketSellAgain(B1, a) ==
    IF B1.err \/ Len(B1.bid_heap) = 0 THEN B1 ELSE MarketSellLoop(B1, a)

MarketSellLoop(B, a) ==
    IF B.err \/ ~(B.orders[a].remaining > 0 /\ Len(B.bid_heap) > 0) THEN B
    ELSE MarketSellAgain(FillFromBids(B, a), a)

MarkUnfilled(B, a) ==
    IF B.orders[a].remaining > 0
    THEN [B EXCEPT !.orders[a].status = "partial"]
    ELSE B

\* the end of _match_market_order, B1 being what its loop has left
MarketDone(B1, a) == IF B1.err THEN B1 ELSE MarkUnfilled(B1, a)

MatchMarketOrder(B, a) ==
    MarketDone(IF B.orders[a].side = "buy"
               THEN MarketBuyLoop(B, a) ELSE MarketSellLoop(B, a), a)

RECURSIVE LimitBuyLoop(_, _)
LimitBuyLoop(B, a) ==
    IF B.err \/ ~(B.orders[a].remaining > 0 /\ Len(B.ask_heap) > 0
                  /\ B.ask_heap[1][1] <= B.orders[a].price)
    THEN B
    ELSE LimitBuyLoop(FillFromAsks(B, a), a)

RECURSIVE LimitSellLoop(_, _)
LimitSellLoop(B, a) ==
    IF B.err \/ ~(B.orders[a].remaining > 0 /\ Len(B.bid_heap) > 0
                  /\ 0 - B.bid_heap[1][1] >= B.orders[a].price)
    THEN B
    ELSE LimitSellLoop(FillFromBids(B, a), a)

Rests(o) == o.remaining > 0 /\ o.status # "filled"

\* the end of _match_limit_order, B1 being what its loop has left: the
\* remainder is placed in the book of the order's side
LimitBuyDone(B1, a) ==
    IF B1.err THEN B1
    ELSE IF Rests(B1.orders[a]) THEN AddToBids(B1, a) ELSE B1

LimitSellDone(B1, a) ==
    IF B1.err THEN B1
    ELSE IF Rests(B1.orders[a]) THEN AddToAsks(B1, a) ELSE B1

MatchLimitOrder(B, a) ==
    IF B.orders[a].side = "buy"
    THEN LimitBuyDone(LimitBuyLoop(B, a), a)
    ELSE LimitSellDone(LimitSellLoop(B, a), a)

LiveNotFilled(o) == o.status # "filled" /\ o.remaining > 0

Live(o) == o.status \notin {"filled", "cancelled"} /\ o.remaining > 0

\* the pop-while-stale loop of best_bid and best_ask: the heap it leaves
RECURSIVE DropStale(_, _)
DropStale(h, os) ==
    IF Len(h) = 0 \/ Live(os[h[1][3]]) THEN [heap |-> h, err |-> FALSE]
    ELSE LET r == HeapPop(h)
         IN  IF r.err THEN r ELSE DropStale(r.heap, os)

(***************************************************************************)
(* The calls.  ret records the call, whether it raised and what it         *)
(* returned.                                                               *)
(***************************************************************************)
Returned(op, value) == [op |-> op, raised |-> FALSE, value |-> value]

Raised(op) == [op |-> op, raised |-> TRUE, value |-> None]

\* MarketSimulator.__init__: empty metrics, no volume
NewSimulator ==
    [spreads |-> <<>>, mid_prices |-> <<>>, timestamps |-> <<>>,
     trade_prices |-> <<>>, trade_quantities |-> <<>>, trade_sides |-> <<>>,
     order_flow_imbalance |-> <<>>, buy_volume |-> 0, sell_volume |-> 0]

\* no simulator call made yet on a simulator: prepared counts the snapshot
\* and trade rows fed to its book, submitted lists the orders its events
\* and rows have handed to the book, made the orders the call in progress
\* has synthesized; first keeps what the first simulator of the process
\* produced
NewRun(first) ==
    [phase |-> "idle", n_events |-> 0, i |-> 0, prepared |-> 0,
     submitted |-> <<>>, made |-> <<>>, first |-> first]

Pending == {i \in 1..Len(orders) : \A k \in 1..Len(index) : index[k] # i}

Registered(i) == \E k \in 1..Len(index) : index[k] = i

Init ==
    /\ orders = <<>>
    /\ clock = 0
    /\ index = <<>>
    /\ bid_heap = <<>>
    /\ ask_heap = <<>>
    /\ bid_levels = <<>>
    /\ ask_levels = <<>>
    /\ trades = <<>>
    /\ total_volume = 0
    /\ total_trades = 0
    /\ ret = Returned("init", None)
    /\ sim = NewSimulator
    /\ rng = [stream |-> <<>>, pos |-> 0]
    /\ run = NewRun(<<>>)

\* order = Order(side, order_type, quantity, price); tick says whether
\* time.time() has moved since the last Order was made
Construct(side, order_type, quantity, price, tick) ==
    /\ tick = 0 => Len(orders) > 0
    /\ clock' = clock + tick
    /\ orders' = Append(orders, NewOrder(Len(orders) + 1, side, order_type,
                                         quantity, price, clock'))
    /\ UNCHANGED simvars
    /\ UNCHANGED <<index, bid_heap, ask_heap, bid_levels, ask_levels,
                   trades, total_volume, total_trades, ret>>

TradeQuantities(ts) == [i \in 1..Len(ts) |-> ts[i].quantity]

\* book.add_order(orders[a])
AddOrder(a) ==
    /\ a \in Pending
    /\ \E B \in {IF orders[a].order_type = "market"
                 THEN MatchMarketOrder(Book, a)
                 ELSE MatchLimitOrder(Book, a)} :
           /\ index' = Append(index, a)
           /\ orders' = B.orders
           /\ bid_heap' = B.bid_heap
           /\ ask_heap' = B.ask_heap
           /\ bid_levels' = B.bid_levels
           /\ ask_levels' = B.ask_levels
           /\ IF B.err
              THEN /\ UNCHANGED <<trades, total_volume, total_trades>>
                   /\ ret' = Raised("add_order")
              ELSE /\ trades' = trades \o B.out
                   /\ total_trades' = total_trades + Len(B.out)
                   /\ total_volume' =
                        FAdd(total_volume, FSum(TradeQuantities(B.out)))
                   /\ ret' = Returned("add_order", B.out)
    /\ UNCHANGED simvars
    /\ UNCHANGED clock

\* book.cancel_order(order_id)
CancelOrder(order_id) ==
    /\ IF Registered(order_id)
       THEN LET os == [orders EXCEPT ![order_id] = Cancel(@)]
                order == os[order_id]
            IN  /\ orders' = os
                /\ bid_levels' = IF order.side = "buy"
                                 THEN PurgeLevel(bid_levels, order.price, os)
                                 ELSE bid_levels
                /\ ask_levels' = IF order.side = "sell"
                                 THEN PurgeLevel(ask_levels, order.price, os)
                                 ELSE ask_levels
                /\ ret' = Returned("cancel_order", TRUE)
       ELSE /\ UNCHANGED <<orders, bid_levels, ask_levels>>
            /\ ret' = Returned("cancel_order", FALSE)
    /\ UNCHANGED simvars
    /\ UNCHANGED <<clock, index, bid_heap, ask_heap,
                   trades, total_volume, total_trades>>

\* book.best_bid()
BestBid ==
    /\ LET r == DropStale(bid_heap, orders)
       IN  /\ bid_heap' = r.heap
           /\ ret' = IF r.err THEN Raised("best_bid")
                     ELSE IF Len(r.heap) = 0
                     THEN Returned("best_bid", None)
                     ELSE Returned("best_bid", 0 - r.heap[1][1])
    /\ UNCHANGED simvars
    /\ UNCHANGED <<orders, clock, index, ask_heap, bid_levels, ask_levels,
                   trades, total_volume, total_trades>>

\* book.best_ask()
BestAsk ==
    /\ LET r == DropStale(ask_heap, orders)
       IN  /\ ask_heap' = r.heap
           /\ ret' = IF r.err THEN Raised("best_ask")
                     ELSE IF Len(r.heap) = 0
                     THEN Returned("best_ask", None)
                     ELSE Returned("best_ask", r.heap[1][1])
    /\ UNCHANGED simvars
    /\ UNCHANGED <<orders, clock, index, bid_heap, bid_levels, ask_levels,
                   trades, total_volume, total_trades>>

\* a Python value used as a condition: None and 0.0 are false
Truthy(x) == x # None

\* round(x, 2): x in price quanta, to the nearest cent
Round2(x) == IF x < 0 THEN 0 - RoundTo(0 - x, TicksPerCent)
             ELSE RoundTo(x, TicksPerCent)

\* x / 2: exact in binary floating point, kept as the number of halves
Half(x) == [halves |-> x]

\* the price at the head of a heap the stale loop has left, or None
HeadPrice(h, sign) == IF Len(h) = 0 THEN None ELSE sign * h[1][1]

\* book.spread()
Spread ==
    /\ \E b \in {DropStale(bid_heap, orders)} :
          /\ bid_heap' = b.heap
          /\ IF b.err
             THEN /\ UNCHANGED ask_heap
                  /\ ret' = Raised("spread")
             ELSE \E a \in {DropStale(ask_heap, orders)} :
                    /\ ask_heap' = a.heap
                    /\ ret' =
                         IF a.err THEN Raised("spread")
                         ELSE IF Truthy(HeadPrice(b.heap, -1))
                                 /\ Truthy(HeadPrice(a.heap, 1))
                         THEN Returned("spread",
                                Round2(FSub(HeadPrice(a.heap, 1),
                                            HeadPrice(b.heap, -1))))
                         ELSE Returned("spread", None)
    /\ UNCHANGED simvars
    /\ UNCHANGED <<orders, clock, index, bid_levels, ask_levels,
                   trades, total_volume, total_trades>>

\* book.mid_price()
MidPrice ==
    /\ \E b \in {DropStale(bid_heap, orders)} :
          /\ bid_heap' = b.heap
          /\ IF b.err
             THEN /\ UNCHANGED ask_heap
                  /\ ret' = Raised("mid_price")
             ELSE \E a \in {DropStale(ask_heap, orders)} :
                    /\ ask_heap' = a.heap
                    /\ ret' =
                         IF a.err THEN Raised("mid_price")
                         ELSE IF Truthy(HeadPrice(b.heap, -1))
                                 /\ Truthy(HeadPrice(a.heap, 1))
                         THEN Returned("mid_price",
                                Half(FAdd(HeadPrice(b.heap, -1),
                                          HeadPrice(a.heap, 1))))
                         ELSE Returned("mid_price", None)
    /\ UNCHANGED simvars
    /\ UNCHANGED <<orders, clock, index, bid_levels, ask_levels,
                   trades, total_volume, total_trades>>

\* bid_depth / ask_depth after the loop has read the first k heap entries:
\* a dict price -> summed remaining of the live orders
RECURSIVE DepthDict(_, _, _, _)
DepthDict(h, os, sign, k) ==
    IF k = 0 THEN <<>>
    ELSE LET d == DepthDict(h, os, sign, k - 1)
             order == os[h[k][3]]
             price == sign * h[k][1]
         IN  IF Live(order)
             THEN [q \in DOMAIN d \cup {price} |->
                     IF q = price
                     THEN FAdd(IF price \in DOMAIN d THEN d[price] ELSE 0,
                               order.remaining)
                     ELSE d[q]]
             ELSE d

\* sorted(d.items(), key=lambda x: sign * x[0])
RECURSIVE SortedItems(_, _)
SortedItems(d, sign) ==
    IF DOMAIN d = {} THEN <<>>
    ELSE LET p == CHOOSE x \in DOMAIN d :
                     \A y \in DOMAIN d : sign * x <= sign * y
         IN  <<<<p, d[p]>>>>
                \o SortedItems([q \in DOMAIN d \ {p} |-> d[q]], sign)

\* s[:n]
SliceTo(s, n) ==
    IF n >= 0 THEN SubSeq(s, 1, Min(n, Len(s)))
    ELSE SubSeq(s, 1, Len(s) + n)

\* s[start:]
SliceFrom(s, start) ==
    IF start >= 0 THEN SubSeq(s, start + 1, Len(s))
    ELSE IF Len(s) + start > 0 THEN SubSeq(s, Len(s) + start + 1, Len(s))
    ELSE s

\* what get_depth(levels) returns on the heaps bh, ah and the orders os
Depth(bh, ah, os, levels) ==
    [bids |-> SliceTo(SortedItems(DepthDict(bh, os, -1, Len(bh)), -1), levels),
     asks |-> SliceTo(SortedItems(DepthDict(ah, os, 1, Len(ah)), 1), levels)]

\* book.get_depth(levels)
GetDepth(levels) ==
    /\ ret' = Returned("get_depth",
                [levels |-> levels,
                 depth |-> Depth(bid_heap, ask_heap, orders, levels)])
    /\ UNCHANGED simvars
    /\ UNCHANGED <<orders, clock, index, bid_heap, ask_heap, bid_levels,
                   ask_levels, trades, total_volume, total_trades>>

\* book.get_trade_history(n)
GetTradeHistory(n) ==
    /\ ret' = Returned("get_trade_history",
                [n |-> n, history |-> SliceFrom(trades, 0 - n)])
    /\ UNCHANGED simvars
    /\ UNCHANGED <<orders, clock, index, bid_heap, ask_heap, bid_levels,
                   ask_levels, trades, total_volume, total_trades>>

(***************************************************************************)
(* Order.fill and Order.cancel called on an order directly.                *)
(***************************************************************************)
\* orders[i].fill(quantity)
FillCall(i, quantity) ==
    /\ orders' = [orders EXCEPT ![i] = Fill(@, quantity)]
    /\ ret' = Returned("fill", [order |-> i, quantity |-> quantity,
                                returned |-> FillClamp(orders[i], quantity)])
    /\ UNCHANGED simvars
    /\ UNCHANGED <<clock, index, bid_heap, ask_heap, bid_levels, ask_levels,
                   trades, total_volume, total_trades>>

\* orders[i].cancel()
CancelCall(i) ==
    /\ orders' = [orders EXCEPT ![i] = Cancel(@)]
    /\ ret' = Returned("cancel", [order |-> i])
    /\ UNCHANGED simvars
    /\ UNCHANGED <<clock, index, bid_heap, ask_heap, bid_levels, ask_levels,
                   trades, total_volume, total_trades>>

(***************************************************************************)
(* MarketSimulator (simulator.py).  seed_from_snapshot and replay_trades   *)
(* read their rows from CSV files and simulate_hawkes_orders draws its     *)
(* events from the random generators: rng.stream is what the generators    *)
(* yield after seeding, found out as it is read, and rng.pos how much of   *)
(* it has been read since they were last seeded.  Each row and each event  *)
(* is one step.                                                            *)
(***************************************************************************)
\* the orders a caller may make
LimitRequests(sides, prices, quantities) ==
    {[side |-> s, order_type |-> "limit", quantity |-> q, price |-> p] :
        s \in sides, p \in prices, q \in quantities}

MarketRequests(sides, quantities) ==
    {[side |-> s, order_type |-> "market", quantity |-> q, price |-> None] :
        s \in sides, q \in quantities}

\* round(price, 1): the generator's limit prices are multiples of 0.1
Dime == 10 * TicksPerCent

HawkesPrices == {Dime, 2 * Dime}

\* the prices of a snapshot are whatever the exchange quotes
SnapshotPrices == {Dime, Dime + 1, 2 * Dime}

HawkesDraws ==
    LimitRequests(Sides, HawkesPrices, {1}) \cup MarketRequests(Sides, {1})

PhaseRank(phase) ==
    CASE phase = "idle" -> 0
      [] phase = "bids" -> 1
      [] phase = "asks" -> 2
      [] phase = "replay" -> 3
      [] phase = "hawkes" -> 4
      [] phase = "done" -> 5
      [] phase = "raised" -> 6

\* order = Order(...): the objects add_order is about to work on
Offered(r, now) ==
    [Book EXCEPT !.orders =
        Append(orders, NewOrder(Len(orders) + 1, r.side, r.order_type,
                                r.quantity, r.price, now))]

\* executed = self.book.add_order(order): the book the call leaves
Matched(B, a) ==
    IF B.orders[a].order_type = "market" THEN MatchMarketOrder(B, a)
    ELSE MatchLimitOrder(B, a)

\* no read of the best prices is made
NoQuote(B) ==
    [bid_heap |-> B.bid_heap, ask_heap |-> B.ask_heap, err |-> FALSE,
     bid |-> None, ask |-> None]

\* best_bid() then best_ask(), as mid_price() calls them, b and a being
\* what their stale loops leave; spread(), called next, finds the heaps as
\* mid_price() left them and the same two prices
Quote(B, b, a) ==
    IF b.err
    THEN [bid_heap |-> b.heap, ask_heap |-> B.ask_heap, err |-> TRUE,
          bid |-> None, ask |-> None]
    ELSE [bid_heap |-> b.heap, ask_heap |-> a.heap, err |-> a.err,
          bid |-> HeadPrice(b.heap, -1),
          ask |-> IF a.err THEN None ELSE HeadPrice(a.heap, 1)]

\* if bid and ask, in mid_price and in spread
HasMid(Q) == Truthy(Q.bid) /\ Truthy(Q.ask)

MidOf(Q) == Half(FAdd(Q.bid, Q.ask))

SpreadOf(Q) == IF HasMid(Q) THEN Round2(FSub(Q.ask, Q.bid)) ELSE None

\* if mid and spread: one sample on each of the four lists
Sampled(s, Q, t, ofi) ==
    IF HasMid(Q) /\ Truthy(SpreadOf(Q))
    THEN [s EXCEPT !.spreads = Append(@, SpreadOf(Q)),
                   !.mid_prices = Append(@, MidOf(Q)),
                   !.timestamps = Append(@, t),
                   !.order_flow_imbalance = Append(@, ofi)]
    ELSE s

\* for t in executed: the three trade lists
TradeMetrics(s, executed, side) ==
    [s EXCEPT !.trade_prices =
                  @ \o [k \in 1..Len(executed) |-> executed[k].price],
              !.trade_quantities = @ \o TradeQuantities(executed),
              !.trade_sides = @ \o [k \in 1..Len(executed) |-> side]]

\* self.buy_volume += qty or self.sell_volume += qty
Volume(s, side, qty) ==
    IF side = "buy" THEN [s EXCEPT !.buy_volume = FAdd(@, qty)]
    ELSE [s EXCEPT !.sell_volume = FAdd(@, qty)]

\* what a step that has called add_order, and perhaps read the best
\* prices, leaves of the book
BookAfter(B, Q) ==
    /\ index' = Append(index, Len(orders) + 1)
    /\ orders' = B.orders
    /\ bid_heap' = Q.bid_heap
    /\ ask_heap' = Q.ask_heap
    /\ bid_levels' = B.bid_levels
    /\ ask_levels' = B.ask_levels
    /\ IF B.err
       THEN /\ UNCHANGED <<trades, total_volume, total_trades>>
            /\ ret' = Raised("add_order")
       ELSE /\ trades' = trades \o B.out
            /\ total_trades' = total_trades + Len(B.out)
            /\ total_volume' =
                 FAdd(total_volume, FSum(TradeQuantities(B.out)))
            /\ ret' = IF Q.err THEN Raised("mid_price")
                      ELSE IF HasMid(Q) THEN Returned("spread", SpreadOf(Q))
                      ELSE Returned("add_order", B.out)

\* seed_from_snapshot, one row: the bids first, then the asks.  The prints
\* that end it read the best prices of a book that holds no stale entry.
SeedRow(side, quantity, price, tick) ==
    /\ Len(run.first) = 0
    /\ run.prepared < MaxSeeds
    /\ PhaseRank(run.phase) <= (IF side = "buy" THEN 1 ELSE 2)
    /\ tick = 0 => Len(orders) > 0
    /\ clock' = clock + tick
    /\ \E B0 \in {Offered([side |-> side, order_type |-> "limit",
                           quantity |-> quantity, price |-> price],
                          clock + tick)} :
       \E B \in {Matched(B0, Len(orders) + 1)} :
       \E Q \in {NoQuote(B)} :
          /\ BookAfter(B, Q)
          /\ run' = [run EXCEPT
                !.phase = IF B.err THEN "raised"
                          ELSE IF side = "buy" THEN "bids" ELSE "asks",
                !.prepared = @ + 1]
    /\ UNCHANGED <<sim, rng>>

\* replay_trades, one row
ReplayRow(side, qty, tick) ==
    /\ Len(run.first) = 0
    /\ Len(run.submitted) < MaxRows
    /\ PhaseRank(run.phase) <= 3
    /\ tick = 0 => Len(orders) > 0
    /\ clock' = clock + tick
    /\ \E B0 \in {Offered([side |-> side, order_type |-> "market",
                           quantity |-> qty, price |-> None],
                          clock + tick)} :
       \E B \in {Matched(B0, Len(orders) + 1)} :
       \E b \in {DropStale(B.bid_heap, B.orders)} :
       \E a \in {DropStale(B.ask_heap, B.orders)} :
       \E Q \in {IF B.err THEN NoQuote(B) ELSE Quote(B, b, a)} :
       \E v \in {Volume(sim, side, qty)} :
          /\ BookAfter(B, Q)
          /\ sim' = IF B.err THEN sim
                    ELSE IF Q.err THEN v
                    ELSE TradeMetrics(
                           Sampled(v, Q, run.prepared + 1,
                                   FSub(v.buy_volume, v.sell_volume)),
                           B.out, side)
          /\ run' = [run EXCEPT
                !.phase = IF B.err \/ Q.err THEN "raised" ELSE "replay",
                !.prepared = @ + 1,
                !.submitted = Append(@, Len(orders) + 1)]
    /\ UNCHANGED rng

\* simulate_hawkes_orders(n_events): the event times are drawn; a second
\* simulator of the process is given the n_events of the first
StartHawkes(n_events) ==
    /\ PhaseRank(run.phase) <= 3
    /\ Len(run.first) = 1 => n_events = run.first[1].n_events
    /\ run' = [run EXCEPT !.phase = "hawkes", !.n_events = n_events,
                          !.i = 0, !.made = <<>>]
    /\ UNCHANGED <<orders, clock, index, bid_heap, ask_heap, bid_levels,
                   ask_levels, trades, total_volume, total_trades, ret,
                   sim, rng>>

\* simulate_hawkes_orders, one event: the side, type, quantity and price
\* are read from the generators, the order is made and added, the metrics
\* are sampled and then the volume is counted
HawkesEvent(tick) ==
    /\ run.phase = "hawkes"
    /\ tick = 0 => Len(orders) > 0
    /\ clock' = clock + tick
    /\ \E d \in (IF rng.pos < Len(rng.stream)
                 THEN {rng.stream[rng.pos + 1]} ELSE HawkesDraws) :
       \E B0 \in {Offered(d, clock + tick)} :
       \E B \in {Matched(B0, Len(orders) + 1)} :
       \E b \in {DropStale(B.bid_heap, B.orders)} :
       \E a \in {DropStale(B.ask_heap, B.orders)} :
       \E Q \in {IF B.err THEN NoQuote(B) ELSE Quote(B, b, a)} :
          /\ rng' = [stream |-> IF rng.pos < Len(rng.stream)
                                THEN rng.stream ELSE Append(rng.stream, d),
                     pos |-> rng.pos + 1]
          /\ BookAfter(B, Q)
          /\ sim' = IF B.err \/ Q.err THEN sim
                    ELSE Volume(
                           TradeMetrics(
                             Sampled(sim, Q, run.i + 1,
                                     FSub(sim.buy_volume, sim.sell_volume)),
                             B.out, d.side),
                           d.side, d.quantity)
          /\ run' = [run EXCEPT
                !.phase = IF B.err \/ Q.err THEN "raised"
                          ELSE IF run.i + 1 = run.n_events THEN "done"
                          ELSE "hawkes",
                !.i = @ + 1,
                !.made = Append(@, d),
                !.submitted = Append(@, Len(orders) + 1)]

\* what a trade is to one who compares two runs
TradeFacts(ts) ==
    [k \in 1..Len(ts) |->
        <<ts[k].buy_order_id, ts[k].sell_order_id, ts[k].price,
          ts[k].quantity>>]

\* the process seeds the generators as before and makes a second
\* MarketSimulator, with its own empty OrderBook; the Order class and its
\* _id_counter are those of the process
Rerun ==
    /\ Len(run.first) = 0
    /\ run.phase \in {"done", "raised"}
    /\ run.n_events > 0
    /\ index' = <<>>
    /\ bid_heap' = <<>>
    /\ ask_heap' = <<>>
    /\ bid_levels' = <<>>
    /\ ask_levels' = <<>>
    /\ trades' = <<>>
    /\ total_volume' = 0
    /\ total_trades' = 0
    /\ ret' = Returned("init", None)
    /\ sim' = NewSimulator
    /\ rng' = [rng EXCEPT !.pos = 0]
    /\ run' = NewRun(<<[trades |-> TradeFacts(trades), made |-> run.made,
                        n_events |-> run.n_events,
                        prepared |-> run.prepared,
                        phase |-> run.phase]>>)
    /\ UNCHANGED <<orders, clock>>

(***************************************************************************)
(* Specifications.  A caller makes orders and hands each one to the book   *)
(* once (simulator.py, orderbook.py __main__); an order made is not always *)
(* the next one added.  NextOver takes the orders a caller may make.       *)
(***************************************************************************)
CancelledIds == {i \in 1..Len(orders) : orders[i].status = "cancelled"}

NextOver(requests, maxOrders, maxPending, maxCancelled) ==
    \/ \E r \in requests, tick \in {0, 1} :
          /\ Len(orders) < maxOrders
          /\ Cardinality(Pending) < maxPending
          /\ Construct(r.side, r.order_type, r.quantity, r.price, tick)
    \/ \E a \in 1..Len(orders) : AddOrder(a)
    \/ \E order_id \in 1..(Len(orders) + 1) :
          /\ Cardinality(CancelledIds) < maxCancelled
          /\ CancelOrder(order_id)
    \/ BestBid
    \/ BestAsk

AllRequests ==
    LimitRequests(Sides, Prices, Quantities)
        \cup MarketRequests(Sides, Quantities)

Next == NextOver(AllRequests, MaxOrders, MaxPending, MaxOrders + 1)

Spec == Init /\ [][Next]_vars

\* a caller that rests sell orders of one lot, cancels at most one order and
\* takes liquidity with market and limit buy orders of one lot or more than
\* the book can hold
TakeAll == TieOrders

TieRequests ==
    LimitRequests({"sell"}, Prices, {1})
        \cup MarketRequests({"buy"}, {1, TakeAll})
        \cup LimitRequests({"buy"}, {MaxPrice}, {1, TakeAll})

NextTie == NextOver(TieRequests, TieOrders, 1, 1)

SpecTie == Init /\ [][NextTie]_vars

\* the same caller with one more order and market buy orders of one lot only
DeepRequests ==
    LimitRequests({"sell"}, Prices, {1}) \cup MarketRequests({"buy"}, {1})

NextDeep == NextOver(DeepRequests, DeepOrders, 1, 1)

SpecDeep == Init /\ [][NextDeep]_vars

\* the same caller taking liquidity with limit buy orders at the lowest price
LockRequests ==
    LimitRequests({"sell"}, Prices, {1}) \cup LimitRequests({"buy"}, {1}, {1})

NextLock == NextOver(LockRequests, DeepOrders, 1, 1)

SpecLock == Init /\ [][NextLock]_vars

\* a caller that makes two orders before it adds either
LateRequests ==
    LimitRequests({"sell"}, Prices, {1}) \cup MarketRequests({"buy"}, {1})

NextLate == NextOver(LateRequests, MaxOrders, MaxPending + 1, MaxOrders + 1)

SpecLate == Init /\ [][NextLate]_vars

\* a caller whose resting orders are too large for one lot to be added to
\* them exactly: the first float above 2^MantissaBits
BigQty == Pow2(MantissaBits) + 2

RoundRequests ==
    LimitRequests({"sell"}, Prices, {BigQty})
        \cup MarketRequests({"buy"}, Quantities)

NextRound == NextOver(RoundRequests, MaxOrders, MaxPending, MaxOrders + 1)

SpecRound == Init /\ [][NextRound]_vars

\* a caller whose first trade is of the largest quantity a lot can still be
\* added to exactly, 2^MantissaBits, and whose market buy orders take all
\* that rests
FullQty == Pow2(MantissaBits)

VolumeRequests ==
    LimitRequests({"sell"}, {1}, {1, FullQty})
        \cup MarketRequests({"buy"}, {FullQty})

NextVolume == NextOver(VolumeRequests, DeepOrders, 1, 1)

SpecVolume == Init /\ [][NextVolume]_vars

\* a caller that also reads the book: spread, mid price, depth and trade
\* history.  The reads reach no book state that best_bid and best_ask do
\* not reach, so the other specifications leave them out.
QueryPrices == 1..(1 + TicksPerCent)

QueryRequests ==
    LimitRequests(Sides, QueryPrices, Quantities)

NextQuery ==
    \/ NextOver(QueryRequests, QueryOrders, 1, 1)
    \/ Spread
    \/ MidPrice
    \/ \E levels \in 0..MaxLevels : GetDepth(levels)
    \/ \E n \in 0..MaxHistory : GetTradeHistory(n)

SpecQuery == Init /\ [][NextQuery]_vars

\* a caller that makes orders and calls fill and cancel on them itself, with
\* any quantity from 0 to more than an order holds
FillQuantities == 0..(MaxQty + 1)

FillRequests ==
    AllRequests \cup LimitRequests({"sell"}, {1}, {BigQty})

NextFill ==
    \/ \E r \in FillRequests, tick \in {0, 1} :
          /\ Len(orders) < FillOrders
          /\ Construct(r.side, r.order_type, r.quantity, r.price, tick)
    \/ \E i \in 1..Len(orders), quantity \in FillQuantities :
          FillCall(i, quantity)
    \/ \E i \in 1..Len(orders) : CancelCall(i)

SpecFill == Init /\ [][NextFill]_vars

\* a process that seeds a simulator's book from a snapshot, replays trade
\* rows, runs simulate_hawkes_orders and then does the same run again on a
\* second simulator
NextSim ==
    \/ \E side \in Sides, quantity \in Quantities,
          price \in SnapshotPrices, tick \in {0, 1} :
          SeedRow(side, quantity, price, tick)
    \/ \E side \in Sides, tick \in {0, 1} : ReplayRow(side, 1, tick)
    \/ \E n_events \in 1..MaxEvents : StartHawkes(n_events)
    \/ \E tick \in {0, 1} : HawkesEvent(tick)
    \/ Rerun

SpecSim == Init /\ [][NextSim]_vars

(***************************************************************************)
(* What the claims speak of.                                               *)
(***************************************************************************)
Ids == 1..Len(orders)

\* terminal and live, in the words of the specification
Ended(o) == o.status \in {"filled", "cancelled"}

IsLive(o) == ~Ended(o) /\ o.remaining > 0

\* the place of a registered order in the order of the add_order calls
Pos(i) == CHOOSE k \in 1..Len(index) : index[k] = i

InHeap(h, i) == \E k \in 1..Len(h) : h[k][3] = i

\* the orders with an entry in the heap of their side
Resting == {i \in Ids : InHeap(bid_heap, i) \/ InHeap(ask_heap, i)}

LiveResting == {i \in Resting : IsLive(orders[i])}

InLevels(levels, i) ==
    \E q \in DOMAIN levels :
        \E k \in 1..Len(levels[q].orders) : levels[q].orders[k] = i

\* the trades the step appends to the history
NewTradeIds == (Len(trades) + 1)..Len(trades')

\* the order the step hands to add_order, when it is an add_order step
Adds(a) == index' = Append(index, a)

PassiveOf(t) ==
    IF Pos(t.buy_order_id) < Pos(t.sell_order_id)
    THEN t.buy_order_id ELSE t.sell_order_id

AggressorOf(t) ==
    IF Pos(t.buy_order_id) < Pos(t.sell_order_id)
    THEN t.sell_order_id ELSE t.buy_order_id

RECURSIVE SumOver(_, _)
SumOver(f, S) ==
    IF S = {} THEN 0
    ELSE LET x == CHOOSE y \in S : TRUE IN f[x] + SumOver(f, S \ {x})

\* the live orders resting against order o, and those o can trade with
Opposing(o) == {i \in LiveResting : orders[i].side # o.side}

Marketable(o) ==
    {i \in Opposing(o) :
        \/ o.order_type = "market"
        \/ o.side = "buy" /\ orders[i].price <= o.price
        \/ o.side = "sell" /\ orders[i].price >= o.price}

RemainingSum(S) == SumOver([i \in Ids |-> orders[i].remaining], S)

\* the order a trade of add_order(a) was made against
RestingSideOf(t, a) ==
    IF t.buy_order_id = a THEN t.sell_order_id ELSE t.buy_order_id

Better(i, j) ==
    IF orders[i].side = "sell" THEN orders[i].price < orders[j].price
    ELSE orders[i].price > orders[j].price

(***************************************************************************)
(* C1.  Fill conservation: every order ever created has                    *)
(* filled + remaining == quantity and 0 <= remaining <= quantity, whatever *)
(* add_order and cancel_order calls were made.  Evaluated as Python does.  *)
(* Violated under SpecRound: float addition and subtraction round.         *)
(***************************************************************************)
C1_FillConservation ==
    \A i \in Ids :
        /\ FAdd(orders[i].filled, orders[i].remaining) = orders[i].quantity
        /\ 0 <= orders[i].remaining
        /\ orders[i].remaining <= orders[i].quantity

(***************************************************************************)
(* C2.  Trade price: every trade of the history has the price of the       *)
(* resting order it matched, never the aggressor's limit price when the    *)
(* two differ.                                                             *)
(***************************************************************************)
C2_TradePrice ==
    \A k \in 1..Len(trades) :
        LET t == trades[k]
            agg == orders[AggressorOf(t)]
        IN  /\ t.price = orders[PassiveOf(t)].price
            /\ (agg.order_type = "limit" /\ agg.price # orders[PassiveOf(t)].price)
                  => t.price # agg.price

\* a limit aggressor has traded at a price that is not its own limit
C2_Witness ==
    \E k \in 1..Len(trades) :
        LET agg == orders[AggressorOf(trades[k])]
        IN  agg.order_type = "limit" /\ agg.price # trades[k].price

(***************************************************************************)
(* C3.  Time priority: of two live orders resting on the same side at the  *)
(* same price, the one whose add_order call came first is matched before   *)
(* the other receives any trade, whatever the order in which the two Order *)
(* objects were constructed.  So a step that fills the later one finds the *)
(* earlier one filled: in that step, or before it.                         *)
(* Violated under SpecLate: the heap orders by the construction timestamp. *)
(***************************************************************************)
C3_TimePriority ==
    [][\A a, b \in LiveResting :
          (/\ orders[a].side = orders[b].side
           /\ orders[a].price = orders[b].price
           /\ Pos(a) < Pos(b)
           /\ orders'[b].filled # orders[b].filled)
             => (orders'[a].filled # orders[a].filled \/ orders[a].filled # 0)]_vars

(***************************************************************************)
(* C4.  Price priority: when a trade is made against a resting order at    *)
(* price p, no live order rests on that side at a strictly better price.   *)
(* So a call that fills a resting order has used up every live order that  *)
(* rested at a better price, and did so in its earlier trades.             *)
(* Violated under SpecDeep: a heappop that raises (C20) leaves the heap    *)
(* out of order.                                                           *)
(***************************************************************************)
EarlierFills(o, k) ==
    LET J == {j \in NewTradeIds :
                 j < k /\ o \in {trades'[j].buy_order_id, trades'[j].sell_order_id}}
    IN  SumOver([j \in NewTradeIds |-> trades'[j].quantity], J)

BetterThan(p) ==
    {o \in LiveResting : orders[o].side = orders[p].side /\ Better(o, p)}

C4_PricePriority ==
    [][/\ \A p \in LiveResting :
             orders'[p].filled # orders[p].filled
                => \A o \in BetterThan(p) : orders'[o].remaining = 0
       /\ \A k \in NewTradeIds : \A a \in Ids : Adds(a) =>
             \A o \in BetterThan(RestingSideOf(trades'[k], a)) :
                 EarlierFills(o, k) = orders[o].remaining]_vars

(***************************************************************************)
(* C5.  Status is a function of (remaining, cancelled): after every        *)
(* add_order and cancel_order, remaining == 0 implies 'filled',            *)
(* 0 < remaining < quantity implies 'partial', and remaining == quantity   *)
(* and not cancelled implies 'open'.                                       *)
(***************************************************************************)
\* the claim as made: violated by cancel_order on a filled or partly filled
\* order and by a market order that finds nothing to trade with
C5_StatusFunction ==
    \A i \in Ids : Registered(i) =>
        LET o == orders[i]
        IN  /\ o.remaining = 0 => o.status = "filled"
            /\ (0 < o.remaining /\ o.remaining < o.quantity)
                  => o.status = "partial"
            /\ (o.remaining = o.quantity /\ o.status # "cancelled")
                  => o.status = "open"

\* the claim as amended: of an order that is not cancelled; an untouched
\* limit order is 'open', and an untouched market order is 'partial' once its
\* add_order has returned
C5_StatusAmended ==
    \A i \in Ids : (Registered(i) /\ orders[i].status # "cancelled") =>
        LET o == orders[i]
        IN  /\ o.remaining = 0 => o.status = "filled"
            /\ (0 < o.remaining /\ o.remaining < o.quantity)
                  => o.status = "partial"
            /\ (o.remaining = o.quantity /\ o.filled = 0
                    /\ o.order_type = "limit")
                  => o.status = "open"
            /\ (o.remaining = o.quantity /\ o.filled = 0
                    /\ o.order_type = "market"
                    /\ ret.op = "add_order" /\ ~ret.raised
                    /\ index[Len(index)] = i)
                  => o.status = "partial"

\* cancel_order has just cancelled a filled order, beside a partly filled one
C5_Witness ==
    /\ ret.op = "cancel_order"
    /\ \E i \in Ids : Registered(i) /\ orders[i].status = "cancelled"
                        /\ orders[i].remaining = 0
    /\ \E i \in Ids : Registered(i) /\ orders[i].status = "partial"
                        /\ 0 < orders[i].remaining
                        /\ orders[i].remaining < orders[i].quantity

NoMarketOrderQueued ==
    \A i \in Ids : orders[i].order_type = "market" =>
        /\ ~InHeap(bid_heap, i) /\ ~InHeap(ask_heap, i)
        /\ ~InLevels(bid_levels, i) /\ ~InLevels(ask_levels, i)

C7_MarketNeverQueued ==
    [][\A a \in Ids :
          (/\ Adds(a)
           /\ orders[a].order_type = "market"
           /\ orders[a].quantity > RemainingSum(Opposing(orders[a])))
             => /\ orders'[a].status = "partial"
                /\ orders'[a].remaining = orders[a].quantity - orders'[a].filled
                /\ NoMarketOrderQueued']_vars

(***************************************************************************)
(* C8.  Market order execution: add_order of a market order of quantity q  *)
(* executes min(q, L), L the remaining of the live opposing orders, and    *)
(* uses each order up before it touches the next.                          *)
(* Violated under SpecTie: the call raises TypeError (C20) part-way.       *)
(***************************************************************************)
OneAtATime ==
    \A j, k \in NewTradeIds :
        LET a == index'[Len(index')]
            p == RestingSideOf(trades'[j], a)
        IN  (j < k /\ p # RestingSideOf(trades'[k], a))
                => orders'[p].remaining = 0

C8_MarketExecution ==
    [][\A a \in Ids :
          (Adds(a) /\ orders[a].order_type = "market")
             => LET want == Min(orders[a].quantity,
                                RemainingSum(Opposing(orders[a])))
                IN  /\ orders'[a].filled = want
                    /\ OneAtATime]_vars

(***************************************************************************)
(* C9.  Limit order execution: add_order of a limit order (p, q) executes  *)
(* min(q, M), M the remaining of the live opposing orders at marketable    *)
(* prices; if and only if quantity remains, the order is put on its own    *)
(* side at p as the newest entry of that level; otherwise it is put        *)
(* nowhere.                                                                *)
(* Violated under SpecTie: the call raises TypeError (C20) part-way.       *)
(***************************************************************************)
OwnHeap(o) == IF o.side = "buy" THEN bid_heap ELSE ask_heap

OwnLevels(o) == IF o.side = "buy" THEN bid_levels ELSE ask_levels

NewestAt(levels, price, i) ==
    /\ price \in DOMAIN levels
    /\ Len(levels[price].orders) > 0
    /\ levels[price].orders[Len(levels[price].orders)] = i

C9_LimitExecution ==
    [][\A a \in Ids :
          (Adds(a) /\ orders[a].order_type = "limit")
             => LET want == Min(orders[a].quantity,
                                RemainingSum(Marketable(orders[a])))
                IN  /\ orders'[a].filled = want
                    /\ IF orders'[a].remaining > 0
                       THEN /\ InHeap(OwnHeap(orders[a])', a)
                            /\ NewestAt(OwnLevels(orders[a])', orders[a].price, a)
                       ELSE /\ ~InHeap(bid_heap', a) /\ ~InHeap(ask_heap', a)
                            /\ ~InLevels(bid_levels', a)
                            /\ ~InLevels(ask_levels', a)]_vars

(***************************************************************************)
(* C10.  best_bid() returns the highest price among the live resting buy   *)
(* orders and best_ask() the lowest among the live resting sell orders, or *)
(* None when the side has none.                                            *)
(* Violated under SpecDeep: after a heappop that raised (C20), best_ask    *)
(* returns the price of a head that is not the best.                       *)
(***************************************************************************)
LivePrices(side) == {orders[i].price : i \in {j \in LiveResting : orders[j].side = side}}

Highest(S) == CHOOSE x \in S : \A y \in S : y <= x

Lowest(S) == CHOOSE x \in S : \A y \in S : x <= y

C10_BestPrices ==
    /\ (ret.op = "best_bid" /\ ~ret.raised) =>
          ret.value = IF LivePrices("buy") = {} THEN None
                      ELSE Highest(LivePrices("buy"))
    /\ (ret.op = "best_ask" /\ ~ret.raised) =>
          ret.value = IF LivePrices("sell") = {} THEN None
                      ELSE Lowest(LivePrices("sell"))

(***************************************************************************)
(* C11.  Stale cleanup is idempotent: best_bid() (or best_ask()) called    *)
(* twice in a row, with no add_order or cancel_order between, gives the    *)
(* same result both times, and a call changes nothing but the heap it      *)
(* reads, from which it removes terminal entries only: depth, orders,      *)
(* levels, trade history and counters are as before.                       *)
(* Violated under SpecTie: the first call raises in heappop (C20), the     *)
(* second returns a price.                                                 *)
(***************************************************************************)
BestCalls == {"best_bid", "best_ask"}

\* the step is a call of the query op
Calls(op) == ret'.op = op /\ orders' = orders /\ index' = index

Entries(h) == {h[k] : k \in 1..Len(h)}

FullDepth(bh, ah, os) == Depth(bh, ah, os, Len(bh) + Len(ah))

C11_StaleCleanupIdempotent ==
    [][\A op \in BestCalls : Calls(op) =>
          /\ ret.op = op => ret' = ret
          /\ UNCHANGED <<bid_levels, ask_levels, trades,
                         total_volume, total_trades>>
          /\ Entries(bid_heap') \subseteq Entries(bid_heap)
          /\ Entries(ask_heap') \subseteq Entries(ask_heap)
          /\ \A e \in (Entries(bid_heap) \ Entries(bid_heap'))
                        \cup (Entries(ask_heap) \ Entries(ask_heap')) :
                Ended(orders[e[3]])
          /\ FullDepth(bid_heap', ask_heap', orders')
                = FullDepth(bid_heap, ask_heap, orders)]_vars

(***************************************************************************)
(* C12.  cancel_order(id) returns True exactly when id was registered by   *)
(* add_order, whatever the status of the order, and then sets the order's  *)
(* status to 'cancelled'; for an id never registered it returns False,     *)
(* raises nothing and changes no order, heap, level, trade or counter.     *)
(***************************************************************************)
WasAdded(i) == \E k \in 1..Len(index) : index[k] = i

\* the step is a cancel_order call
CancelStep ==
    ret'.op = "cancel_order" /\ Len(orders') = Len(orders) /\ index' = index

C12_CancelResult ==
    [][/\ \A order_id \in 1..(Len(orders) + 1) : CancelOrder(order_id) =>
             /\ ~ret'.raised
             /\ ret'.value = WasAdded(order_id)
             /\ WasAdded(order_id) => orders'[order_id].status = "cancelled"
       /\ (CancelStep /\ ret'.value = FALSE) =>
             UNCHANGED <<orders, bid_heap, ask_heap, bid_levels, ask_levels,
                         trades, total_volume, total_trades>>]_vars

\* cancel_order has returned True on an order that was filled, and an order
\* made but never added is there for a call to return False on
C12_Witness ==
    /\ ret.op = "cancel_order"
    /\ ret.value = TRUE
    /\ \E i \in Ids : /\ WasAdded(i)
                      /\ orders[i].status = "cancelled"
                      /\ orders[i].remaining = 0
                      /\ orders[i].filled > 0
    /\ \E i \in Ids : ~WasAdded(i)

(***************************************************************************)
(* C13.  cancel_order frame: a cancel_order call leaves both heaps as they *)
(* were, appends no trade, leaves total_trades and total_volume unchanged, *)
(* and changes no field of any order but the status of one: the target's   *)
(* filled, remaining and quantity are unchanged.                           *)
(***************************************************************************)
SameButStatus(o, p) == [o EXCEPT !.status = p.status] = p

C13_CancelFrame ==
    [][CancelStep =>
          /\ UNCHANGED <<bid_heap, ask_heap, trades,
                         total_trades, total_volume>>
          /\ \A i \in Ids : SameButStatus(orders'[i], orders[i])
          /\ \A i, j \in Ids :
                (orders'[i] # orders[i] /\ orders'[j] # orders[j]) => i = j
          /\ \A i \in Ids :
                orders'[i] # orders[i] => orders'[i].status = "cancelled"]_vars

\* cancel_order has cancelled a partly filled order whose entry is still in
\* its heap
C13_Witness ==
    /\ ret.op = "cancel_order"
    /\ \E i \in Ids : /\ orders[i].status = "cancelled"
                      /\ 0 < orders[i].remaining
                      /\ orders[i].remaining < orders[i].quantity
                      /\ (InHeap(bid_heap, i) \/ InHeap(ask_heap, i))

(***************************************************************************)
(* C14.  PriceLevel aggregate quantity: for every price level of either    *)
(* side, total_quantity is the sum of the remaining quantities of the live *)
(* orders resting at that price, also after a resting order of the level   *)
(* has been partly filled.                                                 *)
(* Violated under Spec: a partial fill of a resting order leaves the       *)
(* total_quantity of its level as it was.                                  *)
(***************************************************************************)
LiveAt(side, price) ==
    {i \in LiveResting : orders[i].side = side /\ orders[i].price = price}

C14_LevelQuantity ==
    /\ \A p \in DOMAIN bid_levels :
          bid_levels[p].total_quantity = RemainingSum(LiveAt("buy", p))
    /\ \A p \in DOMAIN ask_levels :
          ask_levels[p].total_quantity = RemainingSum(LiveAt("sell", p))

(***************************************************************************)
(* C15.  get_depth(levels), levels >= 0, returns per side one              *)
(* (price, quantity) entry for each price at which a live order rests,     *)
(* quantity being the sum of the remaining of all the live orders resting  *)
(* at the price, bids in strictly descending and asks in strictly          *)
(* ascending order of price, cut to the best `levels` prices; cancelled    *)
(* and filled orders add nothing.  The orders resting at a price are read  *)
(* here from the price levels, which get_depth does not use.               *)
(***************************************************************************)
\* the live orders of a side's levels, and those of them at price p
BookedLive(levels) == {i \in Ids : InLevels(levels, i) /\ IsLive(orders[i])}

BookedAt(levels, p) == {i \in BookedLive(levels) : orders[i].price = p}

BookedPrices(levels) == {orders[i].price : i \in BookedLive(levels)}

\* d lists the n best prices of the levels, best first, with their sums;
\* sign is 1 when the lowest price is the best and -1 when the highest is
DepthSideRight(d, levels, n, sign) ==
    /\ Len(d) = Min(n, Cardinality(BookedPrices(levels)))
    /\ \A k \in 1..Len(d) :
          /\ d[k][1] \in BookedPrices(levels)
          /\ d[k][2] = RemainingSum(BookedAt(levels, d[k][1]))
    /\ \A k \in 1..(Len(d) - 1) : sign * d[k][1] < sign * d[k + 1][1]
    /\ \A p \in BookedPrices(levels) :
          (\A k \in 1..Len(d) : d[k][1] # p) =>
              \A k \in 1..Len(d) : sign * d[k][1] < sign * p

LastOf(s, m) == SubSeq(s, Len(s) - m + 1, Len(s))

C16_TradeHistory ==
    (ret.op = "get_trade_history" /\ ret.value.n >= 0) =>
        /\ ~ret.raised
        /\ ret.value.history = LastOf(trades, Min(ret.value.n, Len(trades)))

(***************************************************************************)
(* C17.  The trade history is append-only: an add_order call leaves the    *)
(* trades there as a prefix and appends the trades of the call, one for    *)
(* each match it made, in the order of the list it returns; no other call  *)
(* changes the history, and no trade changes once made.  The matches a     *)
(* call made are read from the fills: the orders it filled, and the        *)
(* quantity it filled of the order added.                                  *)
(* Violated under SpecTie: a call that raises in heappop (C20) has filled  *)
(* orders and appends no trade.                                            *)
(***************************************************************************)
NewTrades == SubSeq(trades', Len(trades) + 1, Len(trades'))

FilledBy(a) == {i \in Ids \ {a} : orders'[i].filled # orders[i].filled}

C17_AppendOnly ==
    [][/\ Len(trades') >= Len(trades)
       /\ SubSeq(trades', 1, Len(trades)) = trades
       /\ (index' = index) => trades' = trades
       /\ \A a \in Ids : Adds(a) =>
             /\ {RestingSideOf(NewTrades[k], a) : k \in 1..Len(NewTrades)}
                   = FilledBy(a)
             /\ FSum(TradeQuantities(NewTrades)) = orders'[a].filled
             /\ ~ret'.raised => ret'.value = NewTrades]_vars

(***************************************************************************)
(* C18.  Round trip: on an empty book (no order added yet), add_order of a *)
(* limit buy (p, q) then add_order of a limit sell (p, q), or the sell     *)
(* then the buy, makes exactly one trade of quantity q at price p; both    *)
(* orders end 'filled', total_trades is 1, and afterwards best_bid() and   *)
(* best_ask() are None and get_depth is empty on both sides.               *)
(***************************************************************************)
\* orders i and j are limit orders of opposite sides, same price and quantity
Mirror(i, j) ==
    /\ orders[i].order_type = "limit" /\ orders[j].order_type = "limit"
    /\ orders[i].side # orders[j].side
    /\ orders[i].price = orders[j].price
    /\ orders[i].quantity = orders[j].quantity

BuyOf(i, j) == IF orders[i].side = "buy" THEN i ELSE j

\* what best_bid() and best_ask() would return on the heaps bh, ah
BestOf(h, os, sign) ==
    LET r == DropStale(h, os)
    IN  IF r.err THEN "raises" ELSE HeadPrice(r.heap, sign)

C18_RoundTrip ==
    [][\A i, j \in Ids :
          (/\ index = <<i>> /\ Adds(j)
           /\ Mirror(i, j)
           /\ orders[i].status = "open")
             => /\ ~ret'.raised
                /\ trades' = <<Trade(BuyOf(i, j), i + j - BuyOf(i, j),
                                     orders[i].price, orders[i].quantity,
                                     trades'[1].timestamp)>>
                /\ ret'.value = trades'
                /\ total_trades' = 1
                /\ orders'[i].status = "filled"
                /\ orders'[j].status = "filled"
                /\ BestOf(bid_heap', orders', -1) = None
                /\ BestOf(ask_heap', orders', 1) = None
                /\ FullDepth(bid_heap', ask_heap', orders')
                      = [bids |-> <<>>, asks |-> <<>>]]_vars

\* the sell of two lots came first; the buy that mirrors it has been added
C18_Witness ==
    /\ Len(index) = 2
    /\ ret.op = "add_order"
    /\ Mirror(index[1], index[2])
    /\ orders[index[1]].side = "sell"
    /\ orders[index[1]].quantity = MaxQty
    /\ orders[index[1]].status = "filled"
    /\ orders[index[2]].status = "filled"
    /\ Len(trades) = 1

(***************************************************************************)
(* C19.  spread() and mid_price() return None exactly when a side has no   *)
(* live resting order; otherwise spread() is best_ask - best_bid and       *)
(* mid_price() is (best_bid + best_ask) / 2, for all positive prices.      *)
(* Violated under SpecQuery: spread() rounds the difference to the cent.   *)
(***************************************************************************)
OneSided == LivePrices("buy") = {} \/ LivePrices("sell") = {}

C19_SpreadMid ==
    /\ ret.op = "spread" =>
          /\ ~ret.raised
          /\ ret.value = IF OneSided THEN None
                         ELSE Lowest(LivePrices("sell"))
                                 - Highest(LivePrices("buy"))
    /\ ret.op = "mid_price" =>
          /\ ~ret.raised
          /\ ret.value = IF OneSided THEN None
                         ELSE Half(Highest(LivePrices("buy"))
                                      + Lowest(LivePrices("sell")))

(***************************************************************************)
(* C20.  The engine never raises on business-logic edge cases: add_order   *)
(* of an order of positive quantity (and positive price if limit) returns  *)
(* a list of trades and does not raise, also for a market order against an *)
(* empty or all-cancelled side and for a limit order that rests at a price *)
(* where an order with the same creation timestamp rests; best_bid,        *)
(* best_ask, spread, mid_price and get_depth do not raise either.          *)
(* Violated under Spec: heappush compares two entries of equal price and   *)
(* timestamp, reaches the Order objects and raises TypeError.              *)
(***************************************************************************)
C20_NeverRaises == ~ret.raised

(***************************************************************************)
(* C25.  Order.fill(q) for q >= 0 applies exactly min(q, remaining): it    *)
(* returns that amount, adds it to filled and takes it off remaining (as   *)
(* Python evaluates the sum and the difference), sets status to 'filled'   *)
(* when the new remaining is 0 and to 'partial' otherwise, and changes no  *)
(* other field of the order and no other object.                           *)
(***************************************************************************)
FillStep == ret'.op = "fill" /\ Len(orders') = Len(orders)

FrameOfFill(o, p) ==
    /\ p.id = o.id /\ p.side = o.side /\ p.order_type = o.order_type
    /\ p.quantity = o.quantity /\ p.price = o.price
    /\ p.timestamp = o.timestamp

C25_FillApplies ==
    [][FillStep =>
        LET i == ret'.value.order
            q == ret'.value.quantity
            o == orders[i]
            p == orders'[i]
            m == IF q < o.remaining THEN q ELSE o.remaining
        IN  /\ ret'.value.returned = m
            /\ p.filled = FAdd(o.filled, m)
            /\ p.remaining = FSub(o.remaining, m)
            /\ p.status = "filled" <=> p.remaining = 0
            /\ p.status = "partial" <=> p.remaining # 0
            /\ FrameOfFill(o, p)
            /\ \A j \in Ids \ {i} : orders'[j] = orders[j]
            /\ UNCHANGED <<clock, index, bid_heap, ask_heap, bid_levels,
                           ask_levels, trades, total_volume, total_trades>>
    ]_vars

\* reached: a fill of more than the order holds has been cut to what it
\* held and has filled it, and a fill of 0 has left another order partial
C25_Witness ==
    /\ ret.op = "fill"
    /\ ret.value.returned < ret.value.quantity
    /\ ret.value.returned > 0
    /\ orders[ret.value.order].status = "filled"
    /\ \E j \in Ids : /\ orders[j].status = "partial"
                      /\ orders[j].filled = 0

(***************************************************************************)
(* C26.  A cancelled order does not block liquidity: when the head of the  *)
(* opposing heap is a cancelled or otherwise terminal order, add_order of  *)
(* a marketable aggressor discards that head without a trade for it and,   *)
(* within the same call, goes on to match a live marketable resting order. *)
(* Violated under SpecTie: discarding the head makes heappop compare two   *)
(* entries of equal price and timestamp, and the call raises TypeError     *)
(* with the aggressor unmatched.                                           *)
(***************************************************************************)
OpposingHeap(o) == IF o.side = "buy" THEN ask_heap ELSE bid_heap

StaleHead(h) == Len(h) > 0 /\ Ended(orders[h[1][3]])

C26_StaleHeadSkipped ==
    [][\A a \in Ids :
          (/\ Adds(a)
           /\ StaleHead(OpposingHeap(orders[a]))
           /\ Marketable(orders[a]) # {})
          => /\ ret'.op = "add_order" /\ ~ret'.raised
             /\ Len(trades') > Len(trades)
             /\ \A k \in NewTradeIds :
                   RestingSideOf(trades'[k], a)
                       # OpposingHeap(orders[a])[1][3]
             /\ RestingSideOf(trades'[Len(trades) + 1], a)
                   \in Marketable(orders[a])
    ]_vars

(***************************************************************************)
(* C27.  Cleanup of filled orders is eager: after every add_order call     *)
(* returns, no heap entry and no PriceLevel.orders entry is an order whose *)
(* remaining is 0; the only stale heap entries are cancelled orders with   *)
(* remaining > 0; and PriceLevel.orders holds only live orders after any   *)
(* add_order or cancel_order.                                              *)
(* Violated under SpecTie: an add_order that raised TypeError in heappop   *)
(* had filled the resting order and skipped remove_filled, and the filled  *)
(* order stays in its level through the calls that follow.                 *)
(***************************************************************************)
HeapIds == {i \in Ids : InHeap(bid_heap, i) \/ InHeap(ask_heap, i)}

LevelIds == {i \in Ids : InLevels(bid_levels, i) \/ InLevels(ask_levels, i)}

C27_EagerCleanup ==
    /\ (ret.op = "add_order" /\ ~ret.raised) =>
          /\ \A i \in HeapIds \cup LevelIds : orders[i].remaining # 0
          /\ \A i \in HeapIds :
                Ended(orders[i]) => /\ orders[i].status = "cancelled"
                                    /\ orders[i].remaining > 0
    /\ (ret.op \in {"add_order", "cancel_order"} /\ ~ret.raised) =>
          \A i \in LevelIds : IsLive(orders[i])

(***************************************************************************)
(* C28.  The book is never crossed or locked: after any sequence of        *)
(* add_order and cancel_order calls, if both sides hold a live resting     *)
(* order then the highest live bid price is below the lowest live ask      *)
(* price.                                                                  *)
(***************************************************************************)
C28_NeverCrossed ==
    (LivePrices("buy") # {} /\ LivePrices("sell") # {})
        => Highest(LivePrices("buy")) < Lowest(LivePrices("sell"))

(***************************************************************************)
(* C29.  Counters agree with the history: total_trades == len(trades) and  *)
(* total_volume == the sum of quantity over trades in every reachable      *)
(* state, and both counters never decrease.  Evaluated as Python does.     *)
(* Violated under SpecVolume: total_volume adds the sum of each call's     *)
(* trades, the sum over the history adds the trades one by one, and the    *)
(* two float sums round differently.                                       *)
(***************************************************************************)
C29_CountersAgree ==
    /\ [](/\ total_trades = Len(trades)
          /\ total_volume = FSum(TradeQuantities(trades)))
    /\ [][/\ total_trades' >= total_trades
          /\ total_volume' >= total_volume]_vars

(***************************************************************************)
(* C30.  Trade and fill accounting: every trade has quantity > 0, its      *)
(* buy_order_id is a BUY order and its sell_order_id a SELL order, both    *)
(* registered in the book; and every order's filled equals the sum of the  *)
(* quantities of the trades that reference it, so that the total bought,   *)
(* the total sold and total_volume are equal.                              *)
(* Violated under SpecTie: an add_order that raises TypeError after a fill *)
(* leaves both orders filled and records no trade.                         *)
(***************************************************************************)
TradesOf(i) ==
    SelectSeq(trades, LAMBDA t : t.buy_order_id = i \/ t.sell_order_id = i)

FilledOn(side) ==
    SumOver([i \in Ids |-> orders[i].filled],
            {i \in Ids : orders[i].side = side})

C30_TradeAccounting ==
    /\ \A k \in 1..Len(trades) :
          /\ trades[k].quantity > 0
          /\ Registered(trades[k].buy_order_id)
          /\ Registered(trades[k].sell_order_id)
          /\ orders[trades[k].buy_order_id].side = "buy"
          /\ orders[trades[k].sell_order_id].side = "sell"
    /\ \A i \in Ids :
          orders[i].filled = FSum(TradeQuantities(TradesOf(i)))
    /\ FilledOn("buy") = FilledOn("sell")
    /\ FilledOn("buy") = total_volume

(***************************************************************************)
(* C21.  Determinism: two runs of simulate_hawkes_orders on books in the   *)
(* same initial state, with the same random stream, produce identical      *)
(* trade sequences (same buy_order_id, sell_order_id, price and quantity,  *)
(* in the same order), also when the second run happens in the same        *)
(* process after the first.                                                *)
(* Violated under SpecSim: Order._id_counter is the process's, so the      *)
(* orders of the second run have other ids than those of the first.        *)
(***************************************************************************)
RunEnded == run.phase \in {"done", "raised"}

SecondRun == Len(run.first) = 1

C21_Deterministic ==
    (SecondRun /\ RunEnded /\ run.first[1].prepared = 0)
        => TradeFacts(trades) = run.first[1].trades

(***************************************************************************)
(* C22.  One-way coupling: the orders simulate_hawkes_orders synthesizes   *)
(* (side, type, quantity, limit price) depend only on the random stream    *)
(* and on the n_events and mid_price arguments, never on the book, the     *)
(* trades or the metrics: two runs with the same stream and different      *)
(* initial books synthesize the same orders.                               *)
(* Violated under SpecSim: on a seeded book an event's add_order raises    *)
(* TypeError and ends the run, and the orders of the events that remain    *)
(* are never made; on an empty book the same stream makes them all.        *)
(***************************************************************************)
C22_OneWayCoupling ==
    (SecondRun /\ RunEnded) => run.made = run.first[1].made

(***************************************************************************)
(* C23.  Metrics sampling: for each event processed by                     *)
(* simulate_hawkes_orders, and each row processed by replay_trades,        *)
(* exactly one sample is appended to the timestamps, mid_prices, spreads   *)
(* and order_flow_imbalance series if the book has a mid price after that  *)
(* event's add_order, that is, a live order rests on each side, and none   *)
(* otherwise; the four series always have equal length.                    *)
(* Violated under SpecSim: the sample is taken under "if mid and           *)
(* spread_val", and a spread that rounds to 0.0 is falsy, so a book whose  *)
(* best prices are less than half a cent apart has a mid price and gets no *)
(* sample.  The four lengths are equal in every state.                     *)
(***************************************************************************)
HasLive(h, os) == \E k \in 1..Len(h) : IsLive(os[h[k][3]])

BookHasMid == HasLive(bid_heap, orders) /\ HasLive(ask_heap, orders)

SampleLens ==
    <<Len(sim.timestamps), Len(sim.mid_prices), Len(sim.spreads),
      Len(sim.order_flow_imbalance)>>

EventStep == Len(run'.submitted) = Len(run.submitted) + 1

C23_MetricsSampling ==
    /\ [](\A k \in 1..4 : SampleLens[k] = SampleLens[1])
    /\ [][EventStep =>
            SampleLens' = (IF BookHasMid'
                           THEN [k \in 1..4 |-> SampleLens[k] + 1]
                           ELSE SampleLens)]_vars

(***************************************************************************)
(* C24.  Order-flow imbalance: every order_flow_imbalance sample recorded  *)
(* at an event equals the cumulative buy volume minus the cumulative sell  *)
(* volume of all orders submitted up to and including that event's order,  *)
(* in simulate_hawkes_orders and in replay_trades.                         *)
(* Violated under SpecSim: simulate_hawkes_orders reads buy_volume and     *)
(* sell_volume for the sample before it counts the event's own quantity,   *)
(* so its sample leaves the event's order out; replay_trades counts first. *)
(***************************************************************************)
SubmittedVolume(side) ==
    SumOver([i \in Ids |-> orders[i].quantity],
            {i \in Ids : /\ \E k \in 1..Len(run.submitted) :
                                run.submitted[k] = i
                         /\ orders[i].side = side})

Imbalance == SubmittedVolume("buy") - SubmittedVolume("sell")

LastImbalance ==
    sim.order_flow_imbalance[Len(sim.order_flow_imbalance)]

OfiSampled ==
    Len(sim'.order_flow_imbalance) = Len(sim.order_flow_imbalance) + 1

C24_OrderFlowImbalance ==
    [][(EventStep /\ OfiSampled) => LastImbalance' = Imbalance']_vars

====
